---- MODULE Spec2Model ----
(***************************************************************************)
(* A model of srctools/_cy_vtf_readwrite.pyx: the VTF pixel-format codecs, *)
(* the FORMATS registry, the load/save/init entry points, and the helpers  *)
(* scale_down, alpha_flatten and ppm_convert.                              *)
(*                                                                         *)
(* Buffers are functions from 0-based byte offsets to bytes, as the typed  *)
(* memoryviews byte[::1] of the source are.  Every codec is translated as  *)
(* the body of one iteration of its prange loop; prange runs the           *)
(* iterations over [0, width*height).  Spec and SpecRegistry run the       *)
(* loops serially; SpecPar runs their iterations in every order.           *)
(***************************************************************************)
EXTENDS Integers, Sequences, FiniteSets, TLC

VARIABLES
    tag,        \* fmt.ind: the index of the format handed to load/save
    w,          \* width argument (src_width of scale_down)
    h,          \* height argument (src_height of scale_down)
    canon,      \* the canonical RGBA buffer (the "pixels" argument, "src" of scale_down)
    enc,        \* the encoded buffer (the "data" argument)
    FORMATS,    \* the module-level registry table
    last,       \* the last call made and how it ended
    orig,       \* history: the canonical buffer handed to the last save that ran
    saved,      \* history: round trips orig had been through (-1: no save yet)
    trips,      \* history: consecutive save->load round trips canon has been through
    dest,       \* the "dest" argument of scale_down
    dw,         \* the "width" argument of scale_down
    dh,         \* the "height" argument of scale_down
    oob,        \* history: the last scale_down read src outside its bounds
    rgb,        \* the "buffer" argument of alpha_flatten
    ppm,        \* the bytes object ppm_convert returned
    job,        \* the parallel loop being run
    pbuf,       \* the buffer the parallel loop writes
    done,       \* the iterations of the parallel loop that have run
    wrote,      \* history: per byte of pbuf, how many iterations stored to it
    dread       \* history: an iteration's stores depended on the contents of pbuf

codecVars == <<tag, w, h, canon, enc, FORMATS, last, orig, saved, trips>>
scaleVars == <<dest, dw, dh, oob>>
flattenVars == <<rgb, ppm>>
parVars == <<job, pbuf, done, wrote, dread>>
helperVars == <<scaleVars, flattenVars, parVars>>
vars == <<codecVars, helperVars>>

----------------------------------------------------------------------------
(* Bounds of the model.                                                    *)

\* Largest width and height of an image.
MaxDim == 2
\* The round-trip counter saturates here.
MaxTrips == 2

----------------------------------------------------------------------------
(* Offsets for the colour channels (DEF R/G/B/A).                          *)

R == 0
G == 1
B == 2
A == 3

\* sizeof(FORMATS) // sizeof(Format)
NFORMATS == 30

Byte == 0..255

----------------------------------------------------------------------------
(* C integer operators on non-negative ints.                               *)

RECURSIVE BitAnd(_, _)
BitAnd(x, y) ==
    IF x = 0 \/ y = 0 THEN 0
    ELSE (x % 2) * (y % 2) + 2 * BitAnd(x \div 2, y \div 2)

RECURSIVE BitOr(_, _)
BitOr(x, y) ==
    IF x = 0 THEN y
    ELSE IF y = 0 THEN x
    ELSE (IF x % 2 = 1 \/ y % 2 = 1 THEN 1 ELSE 0) + 2 * BitOr(x \div 2, y \div 2)

Shl(x, n) == x * 2^n
Shr(x, n) == x \div 2^n

\* The <byte> conversion of an int on a store or a call.
ToByte(x) == x % 256

----------------------------------------------------------------------------
(* Bit helpers.                                                            *)

upsample(bits, data) ==
    LET d == ToByte(data)
    IN  ToByte(BitOr(d, Shr(d, bits)))

decomp565(a, b) ==
    [r |-> upsample(5, Shl(BitAnd(a, 31), 3)),
     g |-> upsample(6, BitOr(Shl(BitAnd(b, 7), 5), Shr(BitAnd(a, 224), 3))),
     b |-> upsample(5, BitAnd(b, 248))]

compress565(r, g, b) ==
    << ToByte(BitOr(BitAnd(Shl(g, 3), 224), Shr(b, 3))),
       ToByte(BitOr(BitAnd(r, 248), Shr(g, 5))) >>

----------------------------------------------------------------------------
(* The 8888 and 888 codecs.  Each definition is one iteration of the       *)
(* function's prange loop at pixel index offset; load_copy and save_copy   *)
(* are a single memcpy.                                                    *)

\* memcpy(dst, src, n): the first n bytes of src over those of dst.
memcpy(dst, src, n) ==
    [i \in DOMAIN dst |-> IF i < n THEN src[i] ELSE dst[i]]

\* memset(dst, c, n): the first n bytes of dst set to c.
memset(dst, c, n) ==
    [i \in DOMAIN dst |-> IF i < n THEN c ELSE dst[i]]

load_copy(pixels, data, width, height) ==
    memcpy(pixels, data, 4 * width * height)

save_copy(pixels, data, width, height) ==
    memcpy(data, pixels, 4 * width * height)

load_bgra8888(pixels, data, offset) ==
    [pixels EXCEPT ![4 * offset + B] = data[4 * offset + 0],
                   ![4 * offset + G] = data[4 * offset + 1],
                   ![4 * offset + R] = data[4 * offset + 2],
                   ![4 * offset + A] = data[4 * offset + 3]]

save_bgra8888(pixels, data, offset) ==
    [data EXCEPT ![4 * offset + 0] = pixels[4 * offset + B],
                 ![4 * offset + 1] = pixels[4 * offset + G],
                 ![4 * offset + 2] = pixels[4 * offset + R],
                 ![4 * offset + 3] = pixels[4 * offset + A]]

load_argb8888(pixels, data, offset) ==
    [pixels EXCEPT ![4 * offset + R] = data[4 * offset + 3],
                   ![4 * offset + G] = data[4 * offset + 0],
                   ![4 * offset + B] = data[4 * offset + 1],
                   ![4 * offset + A] = data[4 * offset + 2]]

save_argb8888(pixels, data, offset) ==
    [data EXCEPT ![4 * offset + 0] = pixels[4 * offset + G],
                 ![4 * offset + 1] = pixels[4 * offset + B],
                 ![4 * offset + 2] = pixels[4 * offset + A],
                 ![4 * offset + 3] = pixels[4 * offset + R]]

load_abgr8888(pixels, data, offset) ==
    [pixels EXCEPT ![4 * offset + R] = data[4 * offset + 3],
                   ![4 * offset + G] = data[4 * offset + 2],
                   ![4 * offset + B] = data[4 * offset + 1],
                   ![4 * offset + A] = data[4 * offset + 0]]

save_abgr8888(pixels, data, offset) ==
    [data EXCEPT ![4 * offset + 0] = pixels[4 * offset + A],
                 ![4 * offset + 1] = pixels[4 * offset + B],
                 ![4 * offset + 2] = pixels[4 * offset + G],
                 ![4 * offset + 3] = pixels[4 * offset + R]]

load_rgb888(pixels, data, offset) ==
    [pixels EXCEPT ![4 * offset + R] = data[3 * offset + 0],
                   ![4 * offset + G] = data[3 * offset + 1],
                   ![4 * offset + B] = data[3 * offset + 2],
                   ![4 * offset + A] = 255]

save_rgb888(pixels, data, offset) ==
    [data EXCEPT ![3 * offset + 0] = pixels[4 * offset + R],
                 ![3 * offset + 1] = pixels[4 * offset + G],
                 ![3 * offset + 2] = pixels[4 * offset + B]]

load_bgr888(pixels, data, offset) ==
    [pixels EXCEPT ![4 * offset + R] = data[3 * offset + 2],
                   ![4 * offset + G] = data[3 * offset + 1],
                   ![4 * offset + B] = data[3 * offset + 0],
                   ![4 * offset + A] = 255]

save_bgr888(pixels, data, offset) ==
    [data EXCEPT ![3 * offset + 0] = pixels[4 * offset + B],
                 ![3 * offset + 1] = pixels[4 * offset + G],
                 ![3 * offset + 2] = pixels[4 * offset + R]]

load_bgrx8888(pixels, data, offset) ==
    [pixels EXCEPT ![4 * offset + R] = data[4 * offset + 2],
                   ![4 * offset + G] = data[4 * offset + 1],
                   ![4 * offset + B] = data[4 * offset + 0],
                   ![4 * offset + A] = 255]

save_bgrx8888(pixels, data, offset) ==
    [data EXCEPT ![4 * offset + 0] = pixels[4 * offset + B],
                 ![4 * offset + 1] = pixels[4 * offset + G],
                 ![4 * offset + 2] = pixels[4 * offset + R],
                 ![4 * offset + 3] = 0]

----------------------------------------------------------------------------
(* The packed 565, 4444 and 5551 codecs.                                   *)

load_rgb565(pixels, data, offset) ==
    LET col == decomp565(data[2 * offset], data[2 * offset + 1])
    IN  [pixels EXCEPT ![4 * offset + R] = col.r,
                       ![4 * offset + G] = col.g,
                       ![4 * offset + B] = col.b,
                       ![4 * offset + A] = 255]

save_rgb565(pixels, data, offset) ==
    LET packed == compress565(pixels[4 * offset + R],
                              pixels[4 * offset + G],
                              pixels[4 * offset + B])
    IN  [data EXCEPT ![2 * offset] = packed[1],
                     ![2 * offset + 1] = packed[2]]

load_bgr565(pixels, data, offset) ==
    LET col == decomp565(data[2 * offset], data[2 * offset + 1])
    IN  [pixels EXCEPT ![4 * offset + R] = col.b,
                       ![4 * offset + G] = col.g,
                       ![4 * offset + B] = col.r,
                       ![4 * offset + A] = 255]

save_bgr565(pixels, data, offset) ==
    LET packed == compress565(pixels[4 * offset + B],
                              pixels[4 * offset + G],
                              pixels[4 * offset + R])
    IN  [data EXCEPT ![2 * offset] = packed[1],
                     ![2 * offset + 1] = packed[2]]

load_bgra4444(pixels, data, offset) ==
    LET a == data[2 * offset]
        b == data[2 * offset + 1]
    IN  [pixels EXCEPT
            ![4 * offset + G] = ToByte(BitOr(BitAnd(a, 240), Shr(BitAnd(a, 240), 4))),
            ![4 * offset + B] = ToByte(BitOr(BitAnd(a, 15), Shl(BitAnd(a, 15), 4))),
            ![4 * offset + R] = ToByte(BitOr(BitAnd(b, 15), Shl(BitAnd(b, 15), 4))),
            ![4 * offset + A] = ToByte(BitOr(BitAnd(b, 240), Shr(BitAnd(b, 240), 4)))]

save_bgra4444(pixels, data, offset) ==
    [data EXCEPT
        ![2 * offset + 0] = ToByte(BitOr(BitAnd(pixels[4 * offset + G], 240),
                                         Shr(pixels[4 * offset + B], 4))),
        ![2 * offset + 1] = ToByte(BitOr(BitAnd(pixels[4 * offset + A], 240),
                                         Shr(pixels[4 * offset + R], 4)))]

load_bgra5551(pixels, data, offset) ==
    LET a == data[2 * offset]
        b == data[2 * offset + 1]
    IN  [pixels EXCEPT
            ![4 * offset + R] = upsample(5, Shl(BitAnd(b, 124), 1)),
            ![4 * offset + G] = upsample(5, BitOr(Shr(BitAnd(a, 224), 2),
                                                  Shl(BitAnd(b, 3), 6))),
            ![4 * offset + B] = upsample(5, Shl(BitAnd(a, 31), 3)),
            ![4 * offset + A] = IF BitAnd(b, 128) # 0 THEN 255 ELSE 0]

save_bgra5551(pixels, data, offset) ==
    LET r == pixels[4 * offset + R]
        g == pixels[4 * offset + G]
        b == pixels[4 * offset + B]
        a == pixels[4 * offset + A]
    IN  [data EXCEPT
            ![2 * offset + 0] = ToByte(BitOr(BitAnd(b, 248), Shr(g, 5))),
            ![2 * offset + 1] = ToByte(BitOr(BitOr(BitAnd(Shl(g, 6), 192),
                                                   BitAnd(Shr(r, 2), 62)),
                                             Shr(a, 7)))]

\* load_bgrx5551 taking alpha from the spare bit, as load_bgra5551 does.
load_bgrx5551_spare_bit(pixels, data, offset) ==
    LET a == data[2 * offset]
        b == data[2 * offset + 1]
    IN  [pixels EXCEPT
            ![4 * offset + R] = upsample(5, Shl(BitAnd(b, 124), 1)),
            ![4 * offset + G] = upsample(5, BitOr(Shr(BitAnd(a, 224), 2),
                                                  Shl(BitAnd(b, 3), 6))),
            ![4 * offset + B] = upsample(5, Shl(BitAnd(a, 31), 3)),
            ![4 * offset + A] = IF BitAnd(b, 128) # 0 THEN 255 ELSE 0]

load_bgrx5551(pixels, data, offset) ==
    LET a == data[2 * offset]
        b == data[2 * offset + 1]
    IN  [pixels EXCEPT
            ![4 * offset + R] = upsample(5, Shl(BitAnd(b, 124), 1)),
            ![4 * offset + G] = upsample(5, BitOr(Shr(BitAnd(a, 224), 2),
                                                  Shl(BitAnd(b, 3), 6))),
            ![4 * offset + B] = upsample(5, Shl(BitAnd(a, 31), 3)),
            ![4 * offset + A] = 255]

save_bgrx5551(pixels, data, offset) ==
    LET r == pixels[4 * offset + R]
        g == pixels[4 * offset + G]
        b == pixels[4 * offset + B]
    IN  [data EXCEPT
            ![2 * offset + 0] = ToByte(BitOr(BitAnd(b, 248), Shr(g, 5))),
            ![2 * offset + 1] = ToByte(BitOr(BitAnd(Shl(g, 6), 192),
                                             BitAnd(Shr(r, 2), 62)))]

----------------------------------------------------------------------------
(* Intensity, alpha and UV codecs.                                         *)

load_i8(pixels, data, offset) ==
    LET color == data[offset]
    IN  [pixels EXCEPT ![4 * offset + R] = color,
                       ![4 * offset + G] = color,
                       ![4 * offset + B] = color,
                       ![4 * offset + A] = 255]

save_i8(pixels, data, offset) ==
    LET r == pixels[4 * offset + R]
        g == pixels[4 * offset + G]
        b == pixels[4 * offset + B]
    IN  [data EXCEPT ![offset] = ToByte((r + g + b) \div 3)]

load_ia88(pixels, data, offset) ==
    LET color == data[2 * offset]
    IN  [pixels EXCEPT ![4 * offset + R] = color,
                       ![4 * offset + G] = color,
                       ![4 * offset + B] = color,
                       ![4 * offset + 3] = data[2 * offset + 1]]

save_ia88(pixels, data, offset) ==
    LET r == pixels[4 * offset + R]
        g == pixels[4 * offset + G]
        b == pixels[4 * offset + B]
    IN  [data EXCEPT ![2 * offset + 0] = ToByte((r + g + b) \div 3),
                     ![2 * offset + 1] = pixels[4 * offset + A]]

\* The memset before load_a8's loop: width * height bytes of pixels.
load_a8_clear(pixels, width, height) ==
    memset(pixels, 0, width * height)

load_a8(pixels, data, offset) ==
    [pixels EXCEPT ![4 * offset + A] = data[offset]]

save_a8(pixels, data, offset) ==
    [data EXCEPT ![offset] = pixels[4 * offset + A]]

load_uv88(pixels, data, offset) ==
    [pixels EXCEPT ![4 * offset + R] = data[2 * offset],
                   ![4 * offset + G] = data[2 * offset + 1],
                   ![4 * offset + B] = 0,
                   ![4 * offset + A] = 255]

save_uv88(pixels, data, offset) ==
    [data EXCEPT ![2 * offset + 0] = pixels[4 * offset + R],
                 ![2 * offset + 1] = pixels[4 * offset + G]]

----------------------------------------------------------------------------
(* The bluescreen codecs: pure blue stands for a transparent pixel.        *)

\* load_rgb888_bluescreen without its test for pure blue.
load_rgb888_bluescreen_no_key(pixels, data, offset) ==
    LET r == data[3 * offset]
        g == data[3 * offset + 1]
        b == data[3 * offset + 2]
    IN  [pixels EXCEPT ![4 * offset + R] = r,
                       ![4 * offset + G] = g,
                       ![4 * offset + B] = b,
                       ![4 * offset + A] = 255]

load_rgb888_bluescreen(pixels, data, offset) ==
    LET r == data[3 * offset]
        g == data[3 * offset + 1]
        b == data[3 * offset + 2]
    IN  IF r = g /\ g = 0 /\ b = 255
        THEN [pixels EXCEPT ![4 * offset] = 0,
                            ![4 * offset + 1] = 0,
                            ![4 * offset + 2] = 0,
                            ![4 * offset + 3] = 0]
        ELSE [pixels EXCEPT ![4 * offset + R] = r,
                            ![4 * offset + G] = g,
                            ![4 * offset + B] = b,
                            ![4 * offset + A] = 255]

save_rgb888_bluescreen(pixels, data, offset) ==
    IF pixels[4 * offset + A] < 128
    THEN [data EXCEPT ![3 * offset + 0] = 0,
                      ![3 * offset + 1] = 0,
                      ![3 * offset + 2] = 255]
    ELSE [data EXCEPT ![3 * offset + 0] = pixels[4 * offset + R],
                      ![3 * offset + 1] = pixels[4 * offset + G],
                      ![3 * offset + 2] = pixels[4 * offset + B]]

load_bgr888_bluescreen(pixels, data, offset) ==
    LET r == data[3 * offset + 2]
        g == data[3 * offset + 1]
        b == data[3 * offset]
    IN  IF r = g /\ g = 0 /\ b = 255
        THEN [pixels EXCEPT ![4 * offset] = 0,
                            ![4 * offset + 1] = 0,
                            ![4 * offset + 2] = 0,
                            ![4 * offset + 3] = 0]
        ELSE [pixels EXCEPT ![4 * offset + R] = r,
                            ![4 * offset + G] = g,
                            ![4 * offset + B] = b,
                            ![4 * offset + A] = 255]

\* save_bgr888_bluescreen writing its blue in RGB order.
save_bgr888_bluescreen_rgb_blue(pixels, data, offset) ==
    IF pixels[4 * offset + A] < 128
    THEN [data EXCEPT ![3 * offset + 0] = 0,
                      ![3 * offset + 1] = 0,
                      ![3 * offset + 2] = 255]
    ELSE [data EXCEPT ![3 * offset + 0] = pixels[4 * offset + B],
                      ![3 * offset + 1] = pixels[4 * offset + G],
                      ![3 * offset + 2] = pixels[4 * offset + R]]

save_bgr888_bluescreen(pixels, data, offset) ==
    IF pixels[4 * offset + A] < 128
    THEN [data EXCEPT ![3 * offset + 0] = 255,
                      ![3 * offset + 1] = 0,
                      ![3 * offset + 2] = 0]
    ELSE [data EXCEPT ![3 * offset + 0] = pixels[4 * offset + B],
                      ![3 * offset + 1] = pixels[4 * offset + G],
                      ![3 * offset + 2] = pixels[4 * offset + R]]

----------------------------------------------------------------------------
(* The block-compressed codecs.  Below 4x4 the loaders run the loop whose  *)
(* iteration is given here (the last two stores both go to offset 2) and   *)
(* the savers write nothing; from 4x4 on they call the squish library,     *)
(* whose result this model leaves unspecified.                             *)

DecompressImage(pixels, width, height, data, flags) ==
    CHOOSE rgba \in [DOMAIN pixels -> Byte] : TRUE

CompressImage(pixels, width, height, data, flags) ==
    CHOOSE blocks \in [DOMAIN data -> Byte] : TRUE

load_dxt1(pixels, data, offset) ==
    [pixels EXCEPT ![4 * offset] = 0,
                   ![4 * offset + 1] = 0,
                   ![4 * offset + 2] = 0,
                   ![4 * offset + 2] = 255]

load_dxt1_alpha(pixels, data, offset) ==
    [pixels EXCEPT ![4 * offset] = 0,
                   ![4 * offset + 1] = 0,
                   ![4 * offset + 2] = 0,
                   ![4 * offset + 2] = 255]

load_dxt5(pixels, data, offset) ==
    [pixels EXCEPT ![4 * offset] = 0,
                   ![4 * offset + 1] = 0,
                   ![4 * offset + 2] = 0,
                   ![4 * offset + 2] = 255]

load_ati2n(pixels, data, offset) ==
    [pixels EXCEPT ![4 * offset] = 0,
                   ![4 * offset + 1] = 0,
                   ![4 * offset + 2] = 0,
                   ![4 * offset + 2] = 255]

\* load_dxt3 walks byte offsets 0, 4, 8, ...: iteration offset is at 4 * offset.
load_dxt3(pixels, data, offset) ==
    LET off == 4 * offset
    IN  [pixels EXCEPT ![off] = 0,
                       ![off + 1] = 0,
                       ![off + 2] = 0,
                       ![off + 2] = 255]

----------------------------------------------------------------------------
(* The registry.  A function pointer is the name of the function it points *)
(* to; NULL is the string "NULL".                                          *)

Format(name, loadfn, savefn) == [name |-> name, load |-> loadfn, save |-> savefn]

\* The rows assigned to FORMATS[0] .. FORMATS[29], in index order.
FormatRows == <<
    Format("RGBA8888", "load_copy", "save_copy"),
    Format("ABGR8888", "load_abgr8888", "save_abgr8888"),
    Format("RGB888", "load_rgb888", "save_rgb888"),
    Format("BGR888", "load_bgr888", "save_bgr888"),
    Format("RGB565", "load_rgb565", "save_rgb565"),
    Format("I8", "load_i8", "save_i8"),
    Format("IA88", "load_ia88", "save_ia88"),
    Format("P8", "NULL", "NULL"),
    Format("A8", "load_a8", "save_a8"),
    Format("RGB888_BLUESCREEN", "load_rgb888_bluescreen", "save_rgb888_bluescreen"),
    Format("BGR888_BLUESCREEN", "load_bgr888_bluescreen", "save_bgr888_bluescreen"),
    Format("ARGB8888", "load_argb8888", "save_argb8888"),
    Format("BGRA8888", "load_bgra8888", "save_bgra8888"),
    Format("DXT1", "load_dxt1", "save_dxt1"),
    Format("DXT3", "load_dxt3", "save_dxt3"),
    Format("DXT5", "load_dxt5", "save_dxt5"),
    Format("BGRX8888", "load_bgrx8888", "save_bgrx8888"),
    Format("BGR565", "load_bgr565", "save_bgr565"),
    Format("BGRX5551", "load_bgrx5551", "save_bgrx5551"),
    Format("BGRA4444", "load_bgra4444", "save_bgra4444"),
    Format("DXT1_ONEBITALPHA", "load_dxt1_alpha", "save_dxt1_alpha"),
    Format("BGRA5551", "load_bgra5551", "save_bgra5551"),
    Format("UV88", "load_uv88", "save_uv88"),
    Format("UVWQ8888", "load_copy", "save_copy"),
    Format("RGBA16161616F", "NULL", "NULL"),
    Format("RGBA16161616", "NULL", "NULL"),
    Format("UVLX8888", "load_copy", "save_copy"),
    Format("NONE", "NULL", "NULL"),
    Format("ATI1N", "NULL", "NULL"),
    Format("ATI2N", "load_ati2n", "save_ati2n") >>

\* The table after the module's top-level assignments have run.
FormatTable == [i \in 0..(NFORMATS - 1) |-> FormatRows[i + 1]]

----------------------------------------------------------------------------
(* Calling through a function pointer.                                     *)

\* One iteration of the loop of function fn; the buffer the loop writes.
Iteration(fn, pixels, data, offset) ==
    CASE fn = "load_abgr8888" -> load_abgr8888(pixels, data, offset)
      [] fn = "load_rgb888" -> load_rgb888(pixels, data, offset)
      [] fn = "load_bgr888" -> load_bgr888(pixels, data, offset)
      [] fn = "load_rgb565" -> load_rgb565(pixels, data, offset)
      [] fn = "load_i8" -> load_i8(pixels, data, offset)
      [] fn = "load_ia88" -> load_ia88(pixels, data, offset)
      [] fn = "load_a8" -> load_a8(pixels, data, offset)
      [] fn = "load_rgb888_bluescreen" -> load_rgb888_bluescreen(pixels, data, offset)
      [] fn = "load_bgr888_bluescreen" -> load_bgr888_bluescreen(pixels, data, offset)
      [] fn = "load_argb8888" -> load_argb8888(pixels, data, offset)
      [] fn = "load_bgra8888" -> load_bgra8888(pixels, data, offset)
      [] fn = "load_dxt1" -> load_dxt1(pixels, data, offset)
      [] fn = "load_dxt3" -> load_dxt3(pixels, data, offset)
      [] fn = "load_dxt5" -> load_dxt5(pixels, data, offset)
      [] fn = "load_bgrx8888" -> load_bgrx8888(pixels, data, offset)
      [] fn = "load_bgr565" -> load_bgr565(pixels, data, offset)
      [] fn = "load_bgrx5551" -> load_bgrx5551(pixels, data, offset)
      [] fn = "load_bgra4444" -> load_bgra4444(pixels, data, offset)
      [] fn = "load_dxt1_alpha" -> load_dxt1_alpha(pixels, data, offset)
      [] fn = "load_bgra5551" -> load_bgra5551(pixels, data, offset)
      [] fn = "load_uv88" -> load_uv88(pixels, data, offset)
      [] fn = "load_ati2n" -> load_ati2n(pixels, data, offset)
      [] fn = "save_abgr8888" -> save_abgr8888(pixels, data, offset)
      [] fn = "save_rgb888" -> save_rgb888(pixels, data, offset)
      [] fn = "save_bgr888" -> save_bgr888(pixels, data, offset)
      [] fn = "save_rgb565" -> save_rgb565(pixels, data, offset)
      [] fn = "save_i8" -> save_i8(pixels, data, offset)
      [] fn = "save_ia88" -> save_ia88(pixels, data, offset)
      [] fn = "save_a8" -> save_a8(pixels, data, offset)
      [] fn = "save_rgb888_bluescreen" -> save_rgb888_bluescreen(pixels, data, offset)
      [] fn = "save_bgr888_bluescreen" -> save_bgr888_bluescreen(pixels, data, offset)
      [] fn = "save_argb8888" -> save_argb8888(pixels, data, offset)
      [] fn = "save_bgra8888" -> save_bgra8888(pixels, data, offset)
      [] fn = "save_bgrx8888" -> save_bgrx8888(pixels, data, offset)
      [] fn = "save_bgr565" -> save_bgr565(pixels, data, offset)
      [] fn = "save_bgrx5551" -> save_bgrx5551(pixels, data, offset)
      [] fn = "save_bgra4444" -> save_bgra4444(pixels, data, offset)
      [] fn = "save_bgra5551" -> save_bgra5551(pixels, data, offset)
      [] fn = "save_uv88" -> save_uv88(pixels, data, offset)

BlockLoaders == {"load_dxt1", "load_dxt1_alpha", "load_dxt3", "load_dxt5", "load_ati2n"}
BlockSavers == {"save_dxt1", "save_dxt1_alpha", "save_dxt3", "save_dxt5", "save_ati2n"}

\* The squish flags each block codec passes.
Flags(fn) ==
    CASE fn \in {"load_dxt1", "save_dxt1"} -> "kDxt1 | kForceOpaque"
      [] fn \in {"load_dxt1_alpha", "save_dxt1_alpha"} -> "kDxt1"
      [] fn \in {"load_dxt3", "save_dxt3"} -> "kDxt3"
      [] fn \in {"load_dxt5", "save_dxt5"} -> "kDxt5"
      [] fn \in {"load_ati2n", "save_ati2n"} -> "kBc5"

\* for offset in prange(n): the iterations of a loader's loop, from offset on.
RECURSIVE prange_load(_, _, _, _, _)
prange_load(fn, pixels, data, n, offset) ==
    IF offset >= n THEN pixels
    ELSE prange_load(fn, Iteration(fn, pixels, data, offset), data, n, offset + 1)

\* for offset in prange(n): the iterations of a saver's loop, from offset on.
RECURSIVE prange_save(_, _, _, _, _)
prange_save(fn, pixels, data, n, offset) ==
    IF offset >= n THEN data
    ELSE prange_save(fn, pixels, Iteration(fn, pixels, data, offset), n, offset + 1)

\* A block loader: its loop below 4x4, the squish decoder otherwise.
load_block(fn, pixels, data, width, height) ==
    IF width < 4 \/ height < 4
    THEN prange_load(fn, pixels, data, width * height, 0)
    ELSE DecompressImage(pixels, width, height, data, Flags(fn))

\* A block saver: nothing below 4x4, the squish encoder otherwise.
save_block(fn, pixels, data, width, height) ==
    IF width >= 4 /\ height >= 4
    THEN CompressImage(pixels, width, height, data, Flags(fn))
    ELSE data

\* FORMATS[index].load(pixels, data, width, height): the pixels buffer afterwards.
CallLoad(fn, pixels, data, width, height) ==
    CASE fn = "load_copy" -> load_copy(pixels, data, width, height)
      [] fn = "load_a8" ->
            prange_load(fn, load_a8_clear(pixels, width, height), data, width * height, 0)
      [] fn \in BlockLoaders -> load_block(fn, pixels, data, width, height)
      [] OTHER -> prange_load(fn, pixels, data, width * height, 0)

\* FORMATS[index].save(pixels, data, width, height): the data buffer afterwards.
CallSave(fn, pixels, data, width, height) ==
    CASE fn = "save_copy" -> save_copy(pixels, data, width, height)
      [] fn \in BlockSavers -> save_block(fn, pixels, data, width, height)
      [] OTHER -> prange_save(fn, pixels, data, width * height, 0)

----------------------------------------------------------------------------
(* The inputs the callers hand in.                                         *)

\* fmt.ind of the format argument: every registry index, and one on each side.
Tags == (0 - 1)..NFORMATS

ColourBytes == {0, 90, 255}
AlphaBytes == {127, 128, 255}

\* Canonical pixels <<r, g, b, a>>.
Probes == {<<r, g, b, a>> : r \in ColourBytes, g \in ColourBytes,
                            b \in ColourBytes, a \in AlphaBytes}
RegistryProbes == {<<90, 0, 255, 128>>}
FillPixels == {<<0, 0, 0, 255>>}

\* A canonical width x height image: a probe at the even pixel indices, a
\* filler at the odd ones.
Images(width, height, probes) ==
    {[i \in 0..(4 * width * height - 1) |->
        IF (i \div 4) % 2 = 0 THEN p[(i % 4) + 1] ELSE q[(i % 4) + 1]] :
     p \in probes, q \in FillPixels}

\* Encoded inputs: a byte pattern repeated over the buffer.  It starts with
\* pure blue in RGB order, then in BGR order.
EncPatterns == {<<0, 0, 255, 255, 0, 0, 90, 165, 60, 156, 59>>}
EncInputs(n) ==
    {[i \in 0..(n - 1) |-> pat[(i % Len(pat)) + 1]] : pat \in EncPatterns}

\* What a destination buffer the caller allocates may hold, in every byte.
PriorBytes == {0, 205}

\* A member of the caller's enumeration: fmt.ind and fmt.name.
Member(ind, name) == [ind |-> ind, name |-> name]

\* srctools.vtf.ImageFormats as the registry expects it.
ImageFormats == [i \in 1..NFORMATS |-> Member(i - 1, FormatRows[i].name)]

\* The enumerations handed to init: the right one, an empty one, one with
\* two names exchanged, one with a member past the table, one with a
\* negative index, a matching part of it, and one whose second member is
\* misnamed.
Enumerations == <<
    ImageFormats,
    << >>,
    [ImageFormats EXCEPT ![25] = Member(24, "RGBA16161616"),
                         ![26] = Member(25, "RGBA16161616F")],
    Append(ImageFormats, Member(NFORMATS, "ATI2N")),
    << Member(0 - 1, "RGBA8888") >>,
    << Member(0, "RGBA8888"), Member(1, "ABGR8888") >>,
    << Member(0, "RGBA8888"), Member(2, "BGR888_") >> >>

----------------------------------------------------------------------------
(* The entry points.                                                       *)

Call(op, raised, arg) == [op |-> op, raised |-> raised, arg |-> arg]

\* The caller allocates a destination buffer for the pixels.
NewPixels(c) ==
    /\ canon' = [i \in DOMAIN canon |-> c]
    /\ trips' = 0
    /\ last' = Call("alloc", "None", c)
    /\ UNCHANGED <<tag, w, h, enc, FORMATS, orig, saved, helperVars>>

\* load with the lower bound of its index test off by one.
load_off_by_one ==
    LET index == tag
    IN  IF /\ 0 < index
           /\ index < NFORMATS
           /\ FORMATS[index].load # "NULL"
        THEN /\ canon' = CallLoad(FORMATS[index].load, canon, enc, w, h)
             /\ trips' = IF saved < 0 THEN 0
                         ELSE IF saved < MaxTrips THEN saved + 1 ELSE MaxTrips
             /\ last' = Call("load", "None", index)
             /\ UNCHANGED <<tag, w, h, enc, FORMATS, orig, saved, helperVars>>
        ELSE /\ last' = Call("load", "NotImplementedError", index)
             /\ UNCHANGED <<tag, w, h, canon, enc, FORMATS, orig, saved, trips, helperVars>>

load ==
    LET index == tag
    IN  IF /\ 0 <= index
           /\ index < NFORMATS
           /\ FORMATS[index].load # "NULL"
        THEN /\ canon' = CallLoad(FORMATS[index].load, canon, enc, w, h)
             /\ trips' = IF saved < 0 THEN 0
                         ELSE IF saved < MaxTrips THEN saved + 1 ELSE MaxTrips
             /\ last' = Call("load", "None", index)
             /\ UNCHANGED <<tag, w, h, enc, FORMATS, orig, saved, helperVars>>
        ELSE /\ last' = Call("load", "NotImplementedError", index)
             /\ UNCHANGED <<tag, w, h, canon, enc, FORMATS, orig, saved, trips, helperVars>>

save ==
    LET index == tag
    IN  IF /\ 0 <= index
           /\ index < NFORMATS
           /\ FORMATS[index].save # "NULL"
        THEN /\ enc' = CallSave(FORMATS[index].save, canon, enc, w, h)
             /\ orig' = canon
             /\ saved' = trips
             /\ last' = Call("save", "None", index)
             /\ UNCHANGED <<tag, w, h, canon, FORMATS, trips, helperVars>>
        ELSE /\ last' = Call("save", "NotImplementedError", index)
             /\ UNCHANGED <<tag, w, h, canon, enc, FORMATS, orig, saved, trips, helperVars>>

\* init's loop leaving after its first member.
init_loop_first_only(table, formats, k) ==
    IF k > Len(formats) THEN "None"
    ELSE LET index == formats[k].ind
         IN  IF ~(0 <= index /\ index < NFORMATS) THEN "AssertionError"
             ELSE IF formats[k].name # table[index].name THEN "AssertionError"
             ELSE "None"

\* The loop of init over formats, from member k on: how the call ends.
RECURSIVE init_loop(_, _, _)
init_loop(table, formats, k) ==
    IF k > Len(formats) THEN "None"
    ELSE LET index == formats[k].ind
         IN  IF ~(0 <= index /\ index < NFORMATS) THEN "AssertionError"
             ELSE IF formats[k].name # table[index].name THEN "AssertionError"
             ELSE init_loop(table, formats, k + 1)

init(e) ==
    /\ last' = Call("init", init_loop(FORMATS, Enumerations[e], 1), e)
    /\ UNCHANGED <<tag, w, h, canon, enc, FORMATS, orig, saved, trips, helperVars>>

----------------------------------------------------------------------------
(* The specifications.                                                     *)

\* A buffer of no bytes.
NoBuffer == [i \in {} |-> 0]

\* scale_down has not been called and has no destination.
ScaleIdle == dest = NoBuffer /\ dw = 0 /\ dh = 0 /\ oob = FALSE

\* alpha_flatten and ppm_convert have not been called.
FlattenIdle == rgb = NoBuffer /\ ppm = NoBuffer

\* No parallel loop is being followed.
ParIdle ==
    /\ job = [fn |-> "none", arg |-> 0]
    /\ pbuf = NoBuffer
    /\ done = {}
    /\ wrote = NoBuffer
    /\ dread = FALSE

InitWith(probes) ==
    /\ tag \in Tags
    /\ w \in 1..MaxDim
    /\ h \in 1..MaxDim
    /\ canon \in Images(w, h, probes)
    /\ enc \in EncInputs(4 * w * h)
    /\ FORMATS = FormatTable
    /\ last = Call("none", "None", 0)
    /\ orig = canon
    /\ saved = 0 - 1
    /\ trips = 0
    /\ ScaleIdle
    /\ FlattenIdle
    /\ ParIdle

\* The codecs, over every probe pixel.
Init == InitWith(Probes)

Next ==
    \/ \E c \in PriorBytes : NewPixels(c)
    \/ load
    \/ save

Spec == Init /\ [][Next]_vars

\* The registry: load and save between calls of init.
InitRegistry == InitWith(RegistryProbes)

NextRegistry ==
    \/ load
    \/ save
    \/ \E e \in 1..Len(Enumerations) : init(e)

SpecRegistry == InitRegistry /\ [][NextRegistry]_vars

----------------------------------------------------------------------------
(* Vocabulary of the properties.                                           *)

NPixels == w * h
PixelIndex == 0..(NPixels - 1)

\* Pixel i of a canonical buffer, as <<r, g, b, a>>.
Px(buf, i) == <<buf[4 * i + R], buf[4 * i + G], buf[4 * i + B], buf[4 * i + A]>>

\* The registry's name of the format in use; "" when the index is off the table.
FormatName == IF tag \in 0..(NFORMATS - 1) THEN FormatTable[tag].name ELSE ""

\* The last call was a load that returned normally.
Loaded == last.op = "load" /\ last.raised = "None"

\* The last call was a save that returned normally.
Saved == last.op = "save" /\ last.raised = "None"

\* canon is what load made of the bytes save made of orig.
RoundTripped == Loaded /\ saved >= 0

NonLossy == {"RGBA8888", "BGRA8888", "ABGR8888", "ARGB8888", "BGRX8888", "RGB888",
             "BGR888", "UV88", "A8", "IA88", "UVWQ8888", "UVLX8888"}

\* The canonical images a non-lossy format can represent.
Representable(name, buf) ==
    \A i \in PixelIndex :
        LET p == Px(buf, i)
        IN  /\ name \in {"BGRX8888", "RGB888", "BGR888", "UV88"} => p[4] = 255
            /\ name = "UV88" => p[3] = 0
            /\ name = "A8" => p[1] = 0 /\ p[2] = 0 /\ p[3] = 0
            /\ name = "IA88" => p[1] = p[2] /\ p[2] = p[3]

Packed == {"RGB565", "BGR565", "BGRX5551", "BGRA5551", "BGRA4444"}
BlockFormats == {"DXT1", "DXT1_ONEBITALPHA", "DXT3", "DXT5", "ATI2N"}
NoAlpha == {"RGB888", "BGR888", "BGRX8888", "RGB565", "BGR565", "BGRX5551", "I8", "UV88"}
Unimplemented == {"P8", "RGBA16161616", "RGBA16161616F", "NONE", "ATI1N"}

----------------------------------------------------------------------------
(* The properties.                                                         *)

\* C1: for every non-lossy format and every canonical image in the format's
\* representable subspace, save and then load into a canonical buffer of any
\* prior contents gives back exactly the original 4*W*H bytes.
C1_NonLossyRoundTrip ==
    (RoundTripped /\ FormatName \in NonLossy /\ Representable(FormatName, orig))
        => canon = orig

\* C2: for BGRA5551, save and then load gives every pixel alpha 0 when the
\* original alpha is below 128 and alpha 255 otherwise, whatever R, G, B are.
C2_Bgra5551Alpha ==
    (RoundTripped /\ FormatName = "BGRA5551")
        => \A i \in PixelIndex :
              canon[4 * i + A] = (IF orig[4 * i + A] < 128 THEN 0 ELSE 255)

\* C3: for RGB565, BGR565, BGRX5551, BGRA5551 and BGRA4444 the save-then-load
\* map is idempotent: applied to its own result it gives that result back.
C3_PackedIdempotent ==
    (RoundTripped /\ saved >= 1 /\ FormatName \in Packed) => canon = orig

\* C4: for RGB565, save and then load keeps every channel in place and loses
\* only the low bits: R keeps its top 5 bits, G its top 6, B its top 5, alpha
\* comes back 255; white is saved as FF FF and comes back white.
C4_Rgb565Truncation ==
    (RoundTripped /\ FormatName = "RGB565")
        => \A i \in PixelIndex :
              /\ canon[4 * i + R] \div 8 = orig[4 * i + R] \div 8
              /\ canon[4 * i + G] \div 4 = orig[4 * i + G] \div 4
              /\ canon[4 * i + B] \div 8 = orig[4 * i + B] \div 8
              /\ canon[4 * i + A] = 255
              /\ Px(orig, i) = <<255, 255, 255, 255>>
                    => /\ enc[2 * i] = 255
                       /\ enc[2 * i + 1] = 255
                       /\ Px(canon, i) = <<255, 255, 255, 255>>

\* C5: for DXT1, DXT1_ONEBITALPHA, DXT3, DXT5 and ATI2N with width or height
\* below 4, load leaves every pixel opaque black, whatever the canonical
\* buffer held before and whatever the encoded bytes are.
C5_SmallBlockLoadBlack ==
    (Loaded /\ FormatName \in BlockFormats /\ (w < 4 \/ h < 4))
        => \A i \in PixelIndex : Px(canon, i) = <<0, 0, 0, 255>>

\* C6: after load of a format without an alpha channel every pixel of the
\* canonical buffer has alpha 255, whatever the encoded bytes and the
\* buffer's prior contents.
C6_AlphaFill ==
    (Loaded /\ FormatName \in NoAlpha)
        => \A i \in PixelIndex : canon[4 * i + A] = 255

\* C6 witness: BGRX5551 has loaded back an image of two pixels or more that
\* was saved with alpha 127 in its first pixel, and that pixel's alpha is 255.
C6_Witness ==
    /\ Loaded
    /\ FormatName = "BGRX5551"
    /\ NPixels >= 2
    /\ saved >= 0
    /\ orig[A] = 127
    /\ canon[A] = 255

\* C7: load of A8 sets R = G = B = 0 and alpha to encoded byte i in every
\* pixel i, whatever the canonical buffer held before.
C7_A8Load ==
    (Loaded /\ FormatName = "A8")
        => \A i \in PixelIndex : Px(canon, i) = <<0, 0, 0, enc[i]>>

\* The colour <<r, g, b>> of encoded pixel i of a bluescreen format.
BlueSrc(name, data, i) ==
    IF name = "RGB888_BLUESCREEN"
    THEN <<data[3 * i], data[3 * i + 1], data[3 * i + 2]>>
    ELSE <<data[3 * i + 2], data[3 * i + 1], data[3 * i]>>

\* C8: the bluescreen rule, for RGB888_BLUESCREEN and BGR888_BLUESCREEN in
\* their byte orders: load gives (0,0,0,0) for a source pixel that is exactly
\* (0,0,255) and the source colour with alpha 255 for any other; save writes
\* (0,0,255) for a pixel with alpha below 128 and the pixel's own colour
\* otherwise.
C8_BluescreenRule ==
    FormatName \in {"RGB888_BLUESCREEN", "BGR888_BLUESCREEN"}
        => /\ Loaded =>
                \A i \in PixelIndex :
                    LET c == BlueSrc(FormatName, enc, i)
                    IN  Px(canon, i) = (IF c = <<0, 0, 255>>
                                        THEN <<0, 0, 0, 0>>
                                        ELSE <<c[1], c[2], c[3], 255>>)
           /\ Saved =>
                \A i \in PixelIndex :
                    LET p == Px(canon, i)
                    IN  BlueSrc(FormatName, enc, i) =
                            (IF p[4] < 128 THEN <<0, 0, 255>> ELSE <<p[1], p[2], p[3]>>)

\* C8 witness: a BGR888_BLUESCREEN save of a pixel with alpha 127 and colour
\* other than blue has been loaded back as transparent black, next to an
\* opaque pixel.
C8_Witness ==
    /\ RoundTripped
    /\ FormatName = "BGR888_BLUESCREEN"
    /\ NPixels >= 2
    /\ Px(orig, 0) = <<90, 255, 0, 127>>
    /\ Px(canon, 0) = <<0, 0, 0, 0>>
    /\ Px(canon, 1) = <<0, 0, 0, 255>>

\* The call that a step makes fails for want of a codec.
Unsupported == tag \notin 0..(NFORMATS - 1) \/ FormatName \in Unimplemented

\* C9: load and save raise NotImplementedError exactly when the index is
\* outside [0, 30) or the entry has no function for the direction (P8,
\* RGBA16161616, RGBA16161616F, NONE, ATI1N); then neither buffer is
\* modified; for every other tag the call runs that tag's codec and returns.
C9_UnsupportedExactly ==
    [][last'.op \in {"load", "save"} =>
          /\ last'.raised = (IF Unsupported THEN "NotImplementedError" ELSE "None")
          /\ Unsupported => canon' = canon /\ enc' = enc
          /\ (~Unsupported /\ last'.op = "load") =>
                /\ canon' = CallLoad(FormatRows[tag + 1].load, canon, enc, w, h)
                /\ enc' = enc
          /\ (~Unsupported /\ last'.op = "save") =>
                /\ enc' = CallSave(FormatRows[tag + 1].save, canon, enc, w, h)
                /\ canon' = canon]_vars

\* C9 witness: a save with ATI1N, which is on the table without functions,
\* has raised.
C9_Witness ==
    /\ last = Call("save", "NotImplementedError", 28)
    /\ FormatName = "ATI1N"

\* Every member of enumeration e names an index on the table and the
\* registry's name at that index.
Matches(e) ==
    \A k \in 1..Len(Enumerations[e]) :
        LET m == Enumerations[e][k]
        IN  /\ m.ind \in 0..(NFORMATS - 1)
            /\ m.name = FormatRows[m.ind + 1].name

\* C10: init returns normally exactly when every (index, name) of the
\* enumeration has its index in [0, 30) and the registry's name at that
\* index, and fails otherwise; either way the registry table is as it was,
\* so load and save dispatch alike before and after any calls of init.
C10_InitValidates ==
    /\ FORMATS = FormatTable
    /\ last.op = "init" =>
          last.raised = (IF Matches(last.arg) THEN "None" ELSE "AssertionError")

\* C10 witness: init has failed on the enumeration whose second member is
\* misnamed, after a save that ran.
C10_Witness ==
    /\ last = Call("init", "AssertionError", 7)
    /\ saved >= 0

\* C18: for the two bluescreen formats, save followed by load maps a pixel
\* (R, G, B, A) to (0, 0, 0, 0) exactly when A < 128 or (R, G, B) = (0, 0, 255),
\* and to (R, G, B, 255) otherwise; a second round trip changes nothing.
C18_BluescreenRoundTrip ==
    RoundTripped /\ FormatName \in {"RGB888_BLUESCREEN", "BGR888_BLUESCREEN"} =>
        /\ \A i \in PixelIndex :
               LET p == Px(orig, i)
               IN  Px(canon, i) =
                       (IF p[4] < 128 \/ <<p[1], p[2], p[3]>> = <<0, 0, 255>>
                        THEN <<0, 0, 0, 0>>
                        ELSE <<p[1], p[2], p[3], 255>>)
        /\ saved >= 1 => canon = orig

\* An opaque pure-blue pixel has come back from an RGB888_BLUESCREEN round
\* trip as transparent black.
C18_Witness ==
    /\ RoundTripped
    /\ FormatName = "RGB888_BLUESCREEN"
    /\ Px(orig, 0) = <<0, 0, 255, 255>>
    /\ Px(canon, 0) = <<0, 0, 0, 0>>

----------------------------------------------------------------------------
(* scale_down: the mipmap downscaler.  The source image is canon, of w by  *)
(* h pixels; the destination is dest, of width by height pixels.           *)

\* Largest width and height of the images handed to scale_down.
MaxScale == 4

\* src[index] under boundscheck=False: outside the buffer the read is
\* undefined, and gives whatever byte junk lies there.
src_at(src, index, junk) == IF index \in DOMAIN src THEN src[index] ELSE junk

\* The strides with the width always taken as halved.
Strides_width_halved(src_width, src_height, width, height) ==
    [horiz_off |-> 4,
     per_column |-> 2,
     vert_off |-> IF height # src_height THEN 4 * 2 * width ELSE 0,
     per_row |-> IF height # src_height THEN 2 * 2 * width ELSE 2 * width]

\* The offsets and strides scale_down derives from the four dimensions.
Strides(src_width, src_height, width, height) ==
    LET horiz_off == IF width # src_width THEN 4 ELSE 0
        per_column == IF width # src_width THEN 2 ELSE 1
    IN  [horiz_off |-> horiz_off,
         per_column |-> per_column,
         vert_off |-> IF height # src_height THEN 4 * per_column * width ELSE 0,
         per_row |-> IF height # src_height THEN 2 * per_column * width
                     ELSE per_column * width]

\* The four source offsets the Bilinear loop reads for one channel.
bilinear_taps(s, off2, channel) ==
    << off2 + channel,
       off2 + channel + s.horiz_off,
       off2 + channel + s.vert_off,
       off2 + channel + s.vert_off + s.horiz_off >>

\* The Bilinear loop's pixel with its four bytes summed as bytes, not as ints.
bilinear_pixel_byte_sum(dst, src, s, width, x, y, junk) ==
    LET off == 4 * (width * y + x)
        off2 == 4 * (s.per_row * y + s.per_column * x)
        avg(channel) ==
            LET t == bilinear_taps(s, off2, channel)
            IN  ToByte(ToByte(src_at(src, t[1], junk) + src_at(src, t[2], junk)
                              + src_at(src, t[3], junk) + src_at(src, t[4], junk))
                       \div 4)
    IN  [dst EXCEPT ![off + 0] = avg(0), ![off + 1] = avg(1),
                    ![off + 2] = avg(2), ![off + 3] = avg(3)]

\* The body of the Bilinear loop for pixel (x, y): the four channels.
bilinear_pixel(dst, src, s, width, x, y, junk) ==
    LET off == 4 * (width * y + x)
        off2 == 4 * (s.per_row * y + s.per_column * x)
        avg(channel) ==
            LET t == bilinear_taps(s, off2, channel)
            IN  ToByte((src_at(src, t[1], junk) + src_at(src, t[2], junk)
                        + src_at(src, t[3], junk) + src_at(src, t[4], junk))
                       \div 4)
    IN  [dst EXCEPT ![off + 0] = avg(0), ![off + 1] = avg(1),
                    ![off + 2] = avg(2), ![off + 3] = avg(3)]

\* The filter chain with the offsets of UpperRight and LowerLeft exchanged.
pos_off_transposed(filter_val, s) ==
    CASE filter_val = 0 -> 0
      [] filter_val = 1 -> s.vert_off
      [] filter_val = 2 -> s.horiz_off
      [] filter_val = 3 -> s.vert_off + s.horiz_off

\* The if/elif chain over filter_val for the nearest filters.
pos_off(filter_val, s) ==
    CASE filter_val = 0 -> 0
      [] filter_val = 1 -> s.horiz_off
      [] filter_val = 2 -> s.vert_off
      [] filter_val = 3 -> s.vert_off + s.horiz_off

\* The body of the nearest loop for pixel (x, y): the four channels.
nearest_pixel(dst, src, s, po, width, x, y, junk) ==
    LET off == 4 * (width * y + x)
        off2 == 4 * (s.per_row * y + s.per_column * x)
    IN  [dst EXCEPT ![off + 0] = src_at(src, off2 + po + 0, junk),
                    ![off + 1] = src_at(src, off2 + po + 1, junk),
                    ![off + 2] = src_at(src, off2 + po + 2, junk),
                    ![off + 3] = src_at(src, off2 + po + 3, junk)]

\* One pixel of either loop.
scale_pixel(filter_val, dst, src, s, width, x, y, junk) ==
    IF filter_val = 4
    THEN bilinear_pixel(dst, src, s, width, x, y, junk)
    ELSE nearest_pixel(dst, src, s, pos_off(filter_val, s), width, x, y, junk)

\* for x in range(width): row y from column x on.  This is one iteration of
\* the prange over y.
RECURSIVE scale_row(_, _, _, _, _, _, _, _)
scale_row(filter_val, dst, src, s, width, x, y, junk) ==
    IF x >= width THEN dst
    ELSE scale_row(filter_val,
                   scale_pixel(filter_val, dst, src, s, width, x, y, junk),
                   src, s, width, x + 1, y, junk)

\* for y in prange(height): the rows from y on.
RECURSIVE scale_rows(_, _, _, _, _, _, _, _)
scale_rows(filter_val, dst, src, s, width, height, y, junk) ==
    IF y >= height THEN dst
    ELSE scale_rows(filter_val,
                    scale_row(filter_val, dst, src, s, width, 0, y, junk),
                    src, s, width, height, y + 1, junk)

\* Every src offset the loops read.
scale_reads(filter_val, s, width, height) ==
    UNION { UNION { UNION {
        IF filter_val = 4
        THEN LET t == bilinear_taps(s, 4 * (s.per_row * y + s.per_column * x), channel)
             IN  {t[1], t[2], t[3], t[4]}
        ELSE {4 * (s.per_row * y + s.per_column * x) + pos_off(filter_val, s) + channel}
        : channel \in 0..3 } : x \in 0..(width - 1) } : y \in 0..(height - 1) }

\* Bytes an out-of-bounds read may find.
JunkBytes == {0, 170}

\* scale_down taking every unknown filter for UpperLeft.
scale_down_lenient(filt, junk) ==
    LET filter_val == filt
        s == Strides(w, h, dw, dh)
        known == IF filter_val \in 0..4 THEN filter_val ELSE 0
        stray == ~(scale_reads(known, s, dw, dh) \subseteq DOMAIN canon)
    IN  /\ dest' = scale_rows(known, dest, canon, s, dw, dh, 0, junk)
        /\ oob' = stray
        /\ last' = Call("scale_down", "None", filt)
        /\ UNCHANGED <<tag, w, h, canon, enc, FORMATS, orig, saved, trips>>
        /\ UNCHANGED <<dw, dh, flattenVars, parVars>>

\* scale_down(filt, w, h, dw, dh, canon, dest).
scale_down(filt, junk) ==
    LET filter_val == filt
        s == Strides(w, h, dw, dh)
        stray == ~(scale_reads(filter_val, s, dw, dh) \subseteq DOMAIN canon)
    IN  IF filter_val = 4 \/ filter_val \in 0..3
        THEN /\ dest' = scale_rows(filter_val, dest, canon, s, dw, dh, 0, junk)
             /\ oob' = stray
             /\ last' = Call("scale_down", "None", filt)
             /\ UNCHANGED <<tag, w, h, canon, enc, FORMATS, orig, saved, trips>>
             /\ UNCHANGED <<dw, dh, flattenVars, parVars>>
        ELSE /\ oob' = FALSE
             /\ last' = Call("scale_down", "ValueError", filt)
             /\ UNCHANGED <<tag, w, h, canon, enc, FORMATS, orig, saved, trips>>
             /\ UNCHANGED <<dest, dw, dh, flattenVars, parVars>>

\* The values handed as filt.value: the five members of FilterMode and one other.
FilterValues == 0..5

\* Source images: a ramp whose bytes differ from their neighbours, and white.
ScaleImages(width, height) ==
    { [i \in 0..(4 * width * height - 1) |-> (37 * i + 11) % 256],
      [i \in 0..(4 * width * height - 1) |-> 255] }

\* What the caller's dest holds before the first call.
DestPrior == {205}

InitScale ==
    /\ tag = 0
    /\ w \in 1..MaxScale
    /\ h \in 1..MaxScale
    /\ canon \in ScaleImages(w, h)
    /\ enc = NoBuffer
    /\ FORMATS = FormatTable
    /\ last = Call("none", "None", 0)
    /\ orig = canon
    /\ saved = 0 - 1
    /\ trips = 0
    /\ dw \in 1..MaxScale
    /\ dh \in 1..MaxScale
    /\ \E c \in DestPrior : dest = [i \in 0..(4 * dw * dh - 1) |-> c]
    /\ oob = FALSE
    /\ FlattenIdle
    /\ ParIdle

\* Junk is drawn only for the calls that read outside src.
StrayReads(filt) ==
    /\ filt \in 0..4
    /\ ~(scale_reads(filt, Strides(w, h, dw, dh), dw, dh) \subseteq DOMAIN canon)

NextScale ==
    \E filt \in FilterValues :
        \E junk \in (IF StrayReads(filt) THEN JunkBytes ELSE {0}) : scale_down(filt, junk)

SpecScale == InitScale /\ [][NextScale]_vars

\* scale_down returned normally.
Scaled == last.op = "scale_down" /\ last.raised = "None"

\* Channel c of source pixel (x, y).
SrcPx(x, y, c) == canon[4 * (w * y + x) + c]

\* Channel c of destination pixel (x, y).
DestPx(x, y, c) == dest[4 * (dw * y + x) + c]

\* C11: scale_down with the destination dimensions equal to the source
\* dimensions leaves dest equal to src byte for byte, for every filter 0..4.
C11_SameSizeCopies ==
    Scaled /\ dw = w /\ dh = h => dest = canon

\* A 2x2 ramp has gone through the Bilinear filter at its own size.
C11_Witness ==
    /\ Scaled /\ last.arg = 4
    /\ dw = w /\ dh = h /\ w = 2 /\ h = 2
    /\ canon[0] = 11
    /\ dest = canon

\* C12: the Bilinear filter writes, for every output pixel and channel, the
\* floor of the mean of the 2x2 source block when both dimensions are halved,
\* the sum taken without 8-bit wrap-around, and the floor of the mean of the
\* two source pixels along the halved dimension when only one is halved.
C12_BilinearAverages ==
    Scaled /\ last.arg = 4 =>
        \A x \in 0..(dw - 1), y \in 0..(dh - 1), c \in 0..3 :
            /\ w = 2 * dw /\ h = 2 * dh =>
                   DestPx(x, y, c) =
                       (SrcPx(2 * x, 2 * y, c) + SrcPx(2 * x + 1, 2 * y, c)
                        + SrcPx(2 * x, 2 * y + 1, c) + SrcPx(2 * x + 1, 2 * y + 1, c))
                       \div 4
            /\ w = 2 * dw /\ h = dh =>
                   DestPx(x, y, c) = (SrcPx(2 * x, y, c) + SrcPx(2 * x + 1, y, c)) \div 2
            /\ w = dw /\ h = 2 * dh =>
                   DestPx(x, y, c) = (SrcPx(x, 2 * y, c) + SrcPx(x, 2 * y + 1, c)) \div 2

\* A white 4x4 image has been halved in both dimensions to a white 2x2 one.
C12_Witness ==
    /\ Scaled /\ last.arg = 4
    /\ w = 4 /\ h = 4 /\ dw = 2 /\ dh = 2
    /\ \A i \in DOMAIN canon : canon[i] = 255
    /\ \A i \in DOMAIN dest : dest[i] = 255

\* C13: a call of scale_down with a filter value outside 0..4 ends in
\* ValueError and leaves every byte of dest as it was before the call.
C13_UnknownFilterRaises ==
    [][last'.op = "scale_down" /\ last'.arg \notin 0..4
          => last'.raised = "ValueError" /\ dest' = dest]_vars

\* An unknown filter has been refused over a dest that still holds what the
\* Bilinear filter had written to it.
C13_Witness ==
    /\ last.op = "scale_down" /\ last.raised = "ValueError" /\ last.arg = 5
    /\ w = 2 * dw /\ h = 2 * dh
    /\ \A c \in 0..3 : DestPx(0, 0, c) =
           (SrcPx(0, 0, c) + SrcPx(1, 0, c) + SrcPx(0, 1, c) + SrcPx(1, 1, c)) \div 4
    /\ dest[0] # 205

\* A destination dimension that is neither the source dimension nor half of it.
BadRatio == (dw # w /\ 2 * dw # w) \/ (dh # h /\ 2 * dh # h)

\* C14: a call of scale_down with a destination dimension that is neither
\* equal to the source dimension nor exactly half of it ends in ValueError
\* and reads no source offset outside [0, 4 * src_width * src_height).
C14_BadRatioRejected ==
    last.op = "scale_down" /\ BadRatio => last.raised = "ValueError" /\ ~oob

\* C17: a nearest filter f in 0..3 copies to each output pixel (x, y) the four
\* channels of one source pixel: column 2x + (f mod 2) where the width is
\* halved and x where it is not, row 2y + (f div 2) where the height is halved
\* and y where it is not.
C17_NearestPicks ==
    Scaled /\ last.arg \in 0..3 /\ (dw = w \/ 2 * dw = w) /\ (dh = h \/ 2 * dh = h) =>
        \A x \in 0..(dw - 1), y \in 0..(dh - 1), c \in 0..3 :
            DestPx(x, y, c) =
                SrcPx(IF 2 * dw = w THEN 2 * x + (last.arg % 2) ELSE x,
                      IF 2 * dh = h THEN 2 * y + (last.arg \div 2) ELSE y,
                      c)

\* The 4x4 ramp has been halved in both dimensions by UpperRight: the last
\* output pixel is source pixel (3, 2).
C17_Witness ==
    /\ Scaled /\ last.arg = 1
    /\ w = 4 /\ h = 4 /\ dw = 2 /\ dh = 2
    /\ canon[0] = 11
    /\ DestPx(1, 1, 0) = SrcPx(3, 2, 0)
    /\ DestPx(1, 1, 0) # SrcPx(2, 3, 0)

----------------------------------------------------------------------------
(* alpha_flatten and ppm_convert: the canonical buffer as RGB triples.     *)

\* The bg argument when it is None.
None == << >>

\* <byte>(p * a + inv_a * c) with a = alpha / 255.0 and inv_a = 1.0 - a, in
\* floats.  a is exactly 1.0 at alpha 255 and exactly 0.0 at alpha 0; the
\* rounding of the floats in between is left to the build, and images with
\* such alphas are not composited here.
blend(p, alpha, c) ==
    CASE alpha = 255 -> ToByte(p)
      [] alpha = 0 -> ToByte(c)

\* One iteration of alpha_flatten's loop: the one with bg, or the one without.
alpha_flatten_pixel(pixels, buffer, bg, off) ==
    IF bg # None
    THEN LET r == bg[1]
             g == bg[2]
             b == bg[3]
         IN  [buffer EXCEPT
                  ![3 * off + R] = blend(pixels[4 * off], pixels[4 * off + 3], r),
                  ![3 * off + G] = blend(pixels[4 * off + 1], pixels[4 * off + 3], g),
                  ![3 * off + B] = blend(pixels[4 * off + 2], pixels[4 * off + 3], b)]
    ELSE [buffer EXCEPT ![3 * off + R] = pixels[4 * off],
                        ![3 * off + G] = pixels[4 * off + 1],
                        ![3 * off + B] = pixels[4 * off + 2]]

\* for off in prange(width * height): the iterations from off on.
RECURSIVE alpha_flatten_loop(_, _, _, _, _)
alpha_flatten_loop(pixels, buffer, bg, n, off) ==
    IF off >= n THEN buffer
    ELSE alpha_flatten_loop(pixels, alpha_flatten_pixel(pixels, buffer, bg, off),
                            bg, n, off + 1)

\* %u: the decimal digits of an unsigned int, as character codes.
RECURSIVE fmt_u(_)
fmt_u(n) ==
    IF n < 10 THEN << 48 + n >>
    ELSE Append(fmt_u(n \div 10), 48 + (n % 10))

\* b'P6 %u %u 255\n' formatted with width and height.
PPM_HEADER(width, height) ==
    << 80, 54, 32 >> \o fmt_u(width) \o << 32 >> \o fmt_u(height)
        \o << 32, 50, 53, 53, 10 >>

\* sprintf(buffer, ...): the characters of text and a terminating NUL, stored
\* from buffer[0] on.
sprintf(buffer, text) ==
    [i \in DOMAIN buffer |->
        IF i < Len(text) THEN text[i + 1]
        ELSE IF i = Len(text) THEN 0
        ELSE buffer[i]]

\* PyBytes_FromStringAndSize(NULL, n): n bytes that are not initialised.
PyBytes_FromStringAndSize(n, junk) == [i \in 0..(n - 1) |-> junk]

\* The iteration of ppm_convert's loops with the stride of 3 left out.
ppm_pixel_unit_stride(pixels, buffer, header_size, bg, off) ==
    IF bg # None
    THEN LET r == bg[1]
             g == bg[2]
             b == bg[3]
         IN  [buffer EXCEPT
                  ![header_size + off + R] =
                      blend(pixels[4 * off], pixels[4 * off + 3], r),
                  ![header_size + off + G] =
                      blend(pixels[4 * off + 1], pixels[4 * off + 3], g),
                  ![header_size + off + B] =
                      blend(pixels[4 * off + 2], pixels[4 * off + 3], b)]
    ELSE [buffer EXCEPT ![header_size + off + R] = pixels[4 * off],
                        ![header_size + off + G] = pixels[4 * off + 1],
                        ![header_size + off + B] = pixels[4 * off + 2]]

\* One iteration of ppm_convert's loop: the one with bg, or the one without.
ppm_pixel(pixels, buffer, header_size, bg, off) ==
    IF bg # None
    THEN LET r == bg[1]
             g == bg[2]
             b == bg[3]
         IN  [buffer EXCEPT
                  ![header_size + 3 * off + R] =
                      blend(pixels[4 * off], pixels[4 * off + 3], r),
                  ![header_size + 3 * off + G] =
                      blend(pixels[4 * off + 1], pixels[4 * off + 3], g),
                  ![header_size + 3 * off + B] =
                      blend(pixels[4 * off + 2], pixels[4 * off + 3], b)]
    ELSE [buffer EXCEPT ![header_size + 3 * off + R] = pixels[4 * off],
                        ![header_size + 3 * off + G] = pixels[4 * off + 1],
                        ![header_size + 3 * off + B] = pixels[4 * off + 2]]

\* for off in prange(width * height): the iterations from off on.
RECURSIVE ppm_loop(_, _, _, _, _, _)
ppm_loop(pixels, buffer, header_size, bg, n, off) ==
    IF off >= n THEN buffer
    ELSE ppm_loop(pixels, ppm_pixel(pixels, buffer, header_size, bg, off),
                  header_size, bg, n, off + 1)

alpha_flatten(bg) ==
    /\ rgb' = alpha_flatten_loop(canon, rgb, bg, w * h, 0)
    /\ last' = Call("alpha_flatten", "None", bg)
    /\ UNCHANGED <<tag, w, h, canon, enc, FORMATS, orig, saved, trips>>
    /\ UNCHANGED <<scaleVars, ppm, parVars>>

\* ppm_convert(canon, w, h, bg).  Its first statement is sprintf(NULL, ...),
\* a store through a null pointer, which is undefined: the call either stops
\* there, or sprintf stores nothing and returns the length of the header.
ppm_convert(bg, junk) ==
    LET size == 3 * w * h
        text == PPM_HEADER(w, h)
    IN  \/ /\ last' = Call("ppm_convert", "Fault", bg)
           /\ UNCHANGED <<tag, w, h, canon, enc, FORMATS, orig, saved, trips>>
           /\ UNCHANGED <<scaleVars, flattenVars, parVars>>
        \/ LET header_size == Len(text)
               result == PyBytes_FromStringAndSize(size + header_size, junk)
               buffer == sprintf(result, text)
           IN  /\ ppm' = ppm_loop(canon, buffer, header_size, bg, w * h, 0)
               /\ last' = Call("ppm_convert", "None", bg)
               /\ UNCHANGED <<tag, w, h, canon, enc, FORMATS, orig, saved, trips>>
               /\ UNCHANGED <<scaleVars, rgb, parVars>>

\* Probe pixels for the compositing: opaque and fully transparent.
FlattenProbes ==
    { <<r, 90, b, a>> : r \in ColourBytes, b \in {0, 255}, a \in {0, 255} }

\* The bg arguments: None and one colour.
Backgrounds == { None, <<255, 0, 128>> }

InitFlatten ==
    /\ tag = 0
    /\ w \in 1..MaxDim
    /\ h \in 1..MaxDim
    /\ canon \in Images(w, h, FlattenProbes)
    /\ enc = NoBuffer
    /\ FORMATS = FormatTable
    /\ last = Call("none", "None", 0)
    /\ orig = canon
    /\ saved = 0 - 1
    /\ trips = 0
    /\ ScaleIdle
    /\ \E c \in DestPrior : rgb = [i \in 0..(3 * w * h - 1) |-> c]
    /\ ppm = NoBuffer
    /\ ParIdle

NextFlatten ==
    \/ \E bg \in Backgrounds : alpha_flatten(bg)
    \/ \E bg \in Backgrounds, junk \in JunkBytes : ppm_convert(bg, junk)

SpecFlatten == InitFlatten /\ [][NextFlatten]_vars

\* What alpha_flatten writes for the same pixels with bg absent.
Flattened == alpha_flatten_loop(canon, rgb, None, w * h, 0)

\* The bytes ppm_convert returned are the header for w and h and the RGB
\* triples of canon, which are the bytes alpha_flatten writes.
PpmContent ==
    LET header == << 80, 54, 32, 48 + w, 32, 48 + h, 32, 50, 53, 53, 10 >>
        n == Len(header)
    IN  /\ DOMAIN ppm = 0..(n + 3 * w * h - 1)
        /\ \A i \in 0..(n - 1) : ppm[i] = header[i + 1]
        /\ \A i \in 0..(w * h - 1), c \in 0..2 : ppm[n + 3 * i + c] = canon[4 * i + c]
        /\ \A j \in 0..(3 * w * h - 1) : ppm[n + j] = Flattened[j]

\* C15: ppm_convert with bg absent returns the header "P6 <W> <H> 255\n"
\* followed by exactly 3 * W * H bytes, payload bytes 3i, 3i+1, 3i+2 being
\* canonical bytes 4i, 4i+1, 4i+2, which is what alpha_flatten writes.
C15_PpmExact ==
    last.op = "ppm_convert" /\ last.arg = None =>
        last.raised = "None" /\ PpmContent

\* Whenever ppm_convert with bg absent does return, it returns those bytes.
PpmExactWhenReturned ==
    last.op = "ppm_convert" /\ last.arg = None /\ last.raised = "None" => PpmContent

----------------------------------------------------------------------------
(* The prange loops, iteration by iteration.  OpenMP hands the iterations  *)
(* of a loop to its threads, which run them in no fixed order: a step runs *)
(* one iteration that has not run yet, whichever thread owns it.           *)

\* The loaders and savers whose loop is a prange (load_dxt3 has a plain range).
ParLoaders ==
    { FormatRows[k].load : k \in 1..NFORMATS } \ {"NULL", "load_copy", "load_dxt3"}

ParSavers ==
    { FormatRows[k].save : k \in 1..NFORMATS } \ ({"NULL", "save_copy"} \cup BlockSavers)

\* Every prange loop of the module, with the argument that selects it.
Jobs ==
    { [fn |-> f, arg |-> None] : f \in ParLoaders \cup ParSavers }
    \cup { [fn |-> "alpha_flatten", arg |-> bg] : bg \in Backgrounds }
    \cup { [fn |-> "ppm_convert", arg |-> bg] : bg \in Backgrounds }
    \cup { [fn |-> "scale_down", arg |-> <<filt>>] : filt \in 0..4 }

\* prange(n): the number of iterations of the loop.
Iterations == IF job.fn = "scale_down" THEN dh ELSE w * h

\* The body of iteration off of the loop, run on destination buffer.
LoopBody(buffer, off) ==
    CASE job.fn \in ParLoaders -> Iteration(job.fn, buffer, enc, off)
      [] job.fn \in ParSavers -> Iteration(job.fn, canon, buffer, off)
      [] job.fn = "alpha_flatten" -> alpha_flatten_pixel(canon, buffer, job.arg, off)
      [] job.fn = "ppm_convert" ->
            ppm_pixel(canon, buffer, Len(PPM_HEADER(w, h)), job.arg, off)
      [] job.fn = "scale_down" ->
            scale_row(job.arg[1], buffer, canon, Strides(w, h, dw, dh), dw, 0, off, 0)

\* The destination as the function has it when it enters its loop.
LoopStart(c) ==
    CASE job.fn = "load_a8" -> load_a8_clear([i \in 0..(4 * w * h - 1) |-> c], w, h)
      [] job.fn \in ParLoaders \ {"load_a8"} -> [i \in 0..(4 * w * h - 1) |-> c]
      [] job.fn \in ParSavers -> [i \in 0..(4 * w * h - 1) |-> c]
      [] job.fn = "alpha_flatten" -> [i \in 0..(3 * w * h - 1) |-> c]
      [] job.fn = "ppm_convert" ->
            sprintf(PyBytes_FromStringAndSize(3 * w * h + Len(PPM_HEADER(w, h)), c),
                    PPM_HEADER(w, h))
      [] job.fn = "scale_down" -> [i \in 0..(4 * dw * dh - 1) |-> c]

\* The destination as the function leaves it when its loop runs serially.
LoopEnd(c) ==
    CASE job.fn \in ParLoaders -> CallLoad(job.fn, LoopStart(c), enc, w, h)
      [] job.fn \in ParSavers -> CallSave(job.fn, canon, LoopStart(c), w, h)
      [] job.fn = "alpha_flatten" ->
            alpha_flatten_loop(canon, LoopStart(c), job.arg, w * h, 0)
      [] job.fn = "ppm_convert" ->
            ppm_loop(canon, LoopStart(c), Len(PPM_HEADER(w, h)), job.arg, w * h, 0)
      [] job.fn = "scale_down" ->
            scale_rows(job.arg[1], LoopStart(c), canon, Strides(w, h, dw, dh), dw, dh, 0, 0)

\* The bytes iteration off stores to: those it changes in a buffer of 0s or
\* in a buffer of 205s.
Stores(off) ==
    LET zeros == LoopBody([k \in DOMAIN pbuf |-> 0], off)
        others == LoopBody([k \in DOMAIN pbuf |-> 205], off)
    IN  { i \in DOMAIN pbuf : zeros[i] # 0 \/ others[i] # 205 }

\* Iteration off loads from the destination: a byte it stores varies with
\* what the destination held.
LoadsDest(off) ==
    LET zeros == LoopBody([k \in DOMAIN pbuf |-> 0], off)
        others == LoopBody([k \in DOMAIN pbuf |-> 205], off)
        here == LoopBody(pbuf, off)
    IN  \E i \in DOMAIN pbuf :
            /\ zeros[i] # 0 \/ others[i] # 205
            /\ zeros[i] # others[i] \/ here[i] # zeros[i]

\* Some thread runs iteration off.
prange_iteration(off) ==
    /\ off \in 0..(Iterations - 1)
    /\ off \notin done
    /\ pbuf' = LoopBody(pbuf, off)
    /\ done' = done \cup {off}
    /\ wrote' = LET stored == Stores(off)
                IN  [i \in DOMAIN wrote |->
                        IF i \in stored THEN wrote[i] \cup {off} ELSE wrote[i]]
    /\ dread' = (dread \/ LoadsDest(off))
    /\ UNCHANGED <<codecVars, scaleVars, flattenVars, job>>

\* A probe pixel next to the filler, both opaque.
ParProbes == { <<90, 0, 255, 255>> }

\* The destination widths scale_down is meant for: the same, or half.
Halvings(n) == {n} \cup { m \in 1..n : 2 * m = n }

InitPar ==
    /\ tag = 0
    /\ w \in 1..MaxDim
    /\ h \in 1..MaxDim
    /\ canon \in Images(w, h, ParProbes)
    /\ enc \in EncInputs(4 * w * h)
    /\ FORMATS = FormatTable
    /\ last = Call("none", "None", 0)
    /\ orig = canon
    /\ saved = 0 - 1
    /\ trips = 0
    /\ job \in Jobs
    /\ dest = NoBuffer
    /\ oob = FALSE
    /\ IF job.fn = "scale_down"
       THEN dw \in Halvings(w) /\ dh \in Halvings(h)
       ELSE dw = 0 /\ dh = 0
    /\ FlattenIdle
    /\ \E c \in DestPrior : pbuf = LoopStart(c)
    /\ done = {}
    /\ wrote = [i \in DOMAIN pbuf |-> {}]
    /\ dread = FALSE

NextPar == \E off \in 0..(MaxDim * MaxDim - 1) : prange_iteration(off)

SpecPar == InitPar /\ [][NextPar]_vars

\* C16: in every prange loop, no byte of the destination is stored to by two
\* iterations and no iteration loads from the destination; so whatever the
\* threads, the partition of the iterations among them and the order the
\* iterations run in, no byte is written by two threads, and once every
\* iteration has run the destination is what the serial loop leaves.
C16_LoopsRaceFree ==
    job.fn # "none" =>
        /\ \A i \in DOMAIN wrote : Cardinality(wrote[i]) <= 1
        /\ ~dread
        /\ done = 0..(Iterations - 1) => \E c \in DestPrior : pbuf = LoopEnd(c)

\* Iterations 3 and 1 of save_rgb565 over a 2x2 image have run and 0 and 2
\* have not: bytes 2, 3, 6, 7 of data are written, each by one iteration.
C16_Witness ==
    /\ job.fn = "save_rgb565"
    /\ w = 2 /\ h = 2
    /\ done = {1, 3}
    /\ wrote[2] = {1} /\ wrote[3] = {1} /\ wrote[6] = {3} /\ wrote[7] = {3}
    /\ wrote[0] = {} /\ wrote[4] = {}
    /\ pbuf[0] = 205
====
